---- MODULE Spec2Model ----
(***************************************************************************)
(* Model of pkg/analysis/analysis.go: the bounded-concurrency analyzer run *)
(* (RunAnalysis / executeAnalyzer), the custom plugin run                  *)
(* (RunCustomAnalysis) and the cache-or-compute explanation step           *)
(* (GetAIResults / getAIResultForSanitizedFailures).                       *)
(*                                                                         *)
(* Strings that the code only compares or copies are TLA+ strings; texts   *)
(* the code rewrites or encodes are sequences of one-character strings.    *)
(* A formatted message is the record of the values formatted into it.      *)
(***************************************************************************)
EXTENDS Integers, Sequences, FiniteSets, TLC

VARIABLES
    MaxConcurrency,  \* Analysis.MaxConcurrency
    WithStats,       \* Analysis.WithStats
    Filters,         \* Analysis.Filters
    activeFilters,   \* viper "active_filters"
    customAnalyzers, \* viper "custom_analyzers"
    Results,         \* Analysis.Results
    Errors,          \* Analysis.Errors
    Stats,           \* Analysis.Stats
    mpc,             \* position of the goroutine that runs RunAnalysis / RunCustomAnalysis
    concurrency,     \* capacity of the semaphore channel
    semaphore,       \* number of tokens in the semaphore channel
    wg,              \* the WaitGroup counter
    mutex,           \* 0 when free, else the index of the task holding it
    order,           \* the list the submitting loop ranges over
    fi,              \* index of the loop's current element in order
    mainErrs,        \* the value of a.Errors read by the unguarded append of line 375
    tasks,           \* the launched goroutines, in launch order
    provider,        \* Analysis.AIClient.GetName()
    anonymize,       \* the anonymize argument of GetAIResults
    cacheDisabled,   \* Analysis.Cache.IsCacheDisabled()
    cache,           \* the entries of Analysis.Cache: records [key, payload], one per key
    apc,             \* position of GetAIResults
    index,           \* index of the result being explained
    inputKey,        \* the joined (masked) failure texts of that result
    promptTmpl,      \* the prompt template chosen for it
    result,          \* the response obtained for it
    aerr,            \* the error GetAIResults returned, if any
    existsCalls,     \* number of calls of Cache.Exists
    loadCalls,       \* number of calls of Cache.Load
    remote,          \* the prompts sent to AIClient.GetCompletion, in order
    calls            \* one record per call of getAIResultForSanitizedFailures

runVars == <<MaxConcurrency, WithStats, Filters, activeFilters, customAnalyzers, Results, Errors, Stats,
             mpc, concurrency, semaphore, wg, mutex, order, fi, mainErrs, tasks>>

aiVars == <<provider, anonymize, cacheDisabled, cache, apc, index, inputKey, promptTmpl,
            result, aerr, existsCalls, loadCalls, remote, calls>>

vars == <<runVars, aiVars>>

(* ---------------------------------------------------------------- bounds *)

\* longest explicit filter list tried
MaxFilters == 2
\* longest active-filter list tried
MaxActive == 1

(* ------------------------------------------------------------- constants *)

maxAllowedConcurrency == 100
defaultConcurrency == 10

NoError == "nil"
AnalyzeErrors == {"e1"}

\* analyzer.GetAnalyzerMap(): the core registry and the full registry
CoreAnalyzerMap == {"Pod", "Service", "Node"}
AnalyzerMap == CoreAnalyzerMap \cup {"HPA"}

\* names a user or a configuration file may give
FilterNames == {"Pod", "bogus"}
ActiveNames == {"Service", "stale"}
ConcurrencyValues == {-1, 0, 1, 2, 101}

SeqsUpTo(S, n) == UNION {[1..k -> S] : k \in 0..n}

(* --------------------------------------------------------------- helpers *)

Range(s) == {s[k] : k \in 1..Len(s)}

\* number of positions of s whose element satisfies P
Count(s, P(_)) == Cardinality({k \in 1..Len(s) : P(s[k])})

RECURSIVE Orderings(_)
Orderings(S) ==
    IF S = {} THEN {<<>>}
    ELSE UNION {{<<x>> \o p : p \in Orderings(S \ {x})} : x \in S}

\* what an analyzer of the given name may return as its results
AnalyzerResult(name) ==
    [Kind |-> name, Error |-> <<[Text |-> <<"x">>, Sensitive |-> <<>>]>>, Details |-> <<>>]
AnalyzeResults(name) == {<<>>, <<AnalyzerResult(name)>>}

\* fmt.Sprintf("[%s] %s", filter, err)
TaskError(name, err) == [kind |-> "task", name |-> name, err |-> err]
\* fmt.Sprintf("\"%s\" filter does not exist. ...", filter)
FilterError(name) == [kind |-> "filter", name |-> name, err |-> NoError]
\* fmt.Sprintf("[KubernetesDoc] %s", openApiErr)
DocError(err) == [kind |-> "task", name |-> "KubernetesDoc", err |-> err]

(* ----------------------------------------------------------- RunAnalysis *)

\* the clamp with the test of line 341 written as concurrency < 0
EffectiveConcurrencyZeroKept(c) ==
    IF c < 0 THEN defaultConcurrency
    ELSE IF c > maxAllowedConcurrency THEN maxAllowedConcurrency
    ELSE c

\* lines 340-345
EffectiveConcurrency(c) ==
    IF c <= 0 THEN defaultConcurrency
    ELSE IF c > maxAllowedConcurrency THEN maxAllowedConcurrency
    ELSE c

\* the choice of loop with the active-filter test placed before the explicit one
SelectPathActiveFirst(explicit, active) ==
    IF Len(explicit) = 0 /\ Len(active) = 0 THEN "core"
    ELSE IF Len(active) # 0 THEN "active"
    ELSE "filters"

\* lines 351, 365, 386: which of the three loops runs
SelectPath(explicit, active) ==
    IF Len(explicit) = 0 /\ Len(active) = 0 THEN "core"
    ELSE IF Len(explicit) # 0 THEN "filters"
    ELSE "active"

\* the lists the chosen loop may range over (a Go map is ranged in any order)
SelectOrders(explicit, active) ==
    CASE SelectPath(explicit, active) = "core" -> Orderings(CoreAnalyzerMap)
      [] SelectPath(explicit, active) = "filters" -> {explicit}
      [] OTHER -> {active}

path == SelectPath(Filters, activeFilters)

NewTask(name) ==
    [name |-> name, pc |-> "analyze", results |-> <<>>, err |-> NoError, errs |-> <<>>]

\* the nil error of GetAIResults
NoProviderError == [kind |-> "none", provider |-> "", cause |-> NoError]

\* the explanation step has not been called
AIIdle ==
    /\ provider = "openai"
    /\ anonymize = FALSE
    /\ cacheDisabled = FALSE
    /\ cache = {}
    /\ apc = "idle"
    /\ index = 0
    /\ inputKey = <<>>
    /\ promptTmpl = ""
    /\ result = <<>>
    /\ aerr = NoProviderError
    /\ existsCalls = 0
    /\ loadCalls = 0
    /\ remote = <<>>
    /\ calls = <<>>

Init ==
    /\ MaxConcurrency \in ConcurrencyValues
    /\ WithStats \in BOOLEAN
    /\ Filters \in SeqsUpTo(FilterNames, MaxFilters)
    /\ activeFilters \in SeqsUpTo(ActiveNames, MaxActive)
    /\ customAnalyzers = <<>>
    /\ Results = <<>>
    /\ Errors = <<>>
    /\ Stats = <<>>
    /\ mpc = "start"
    /\ concurrency = 0
    /\ semaphore = 0
    /\ wg = 0
    /\ mutex = 0
    /\ order = <<>>
    /\ fi = 1
    /\ mainErrs = <<>>
    /\ tasks = <<>>
    /\ AIIdle

\* what no step of a run changes: its configuration and the explanation step
cfgVars == <<MaxConcurrency, WithStats, Filters, activeFilters, customAnalyzers, aiVars>>

\* lines 307-351: the optional schema fetch, the clamp, the semaphore, the choice of loop
Setup ==
    /\ mpc = "start"
    /\ \E docErr \in {NoError} \cup AnalyzeErrors, o \in SelectOrders(Filters, activeFilters) :
          /\ Errors' = IF docErr = NoError THEN Errors ELSE Append(Errors, DocError(docErr))
          /\ order' = o
    /\ concurrency' = EffectiveConcurrency(MaxConcurrency)
    /\ semaphore' = 0
    /\ fi' = 1
    /\ mpc' = "loop"
    /\ UNCHANGED <<cfgVars, Results, Stats, wg, mutex, mainErrs, tasks>>

\* whether the loop launches a task for the name (lines 355, 370, 387)
Schedules(name) == path = "core" \/ name \in AnalyzerMap

\* lines 356-357, 371, 388: semaphore <- struct{}{} (after wg.Add(1) on the core loop)
Acquire ==
    /\ mpc = "loop"
    /\ fi <= Len(order)
    /\ Schedules(order[fi])
    /\ semaphore < concurrency
    /\ semaphore' = semaphore + 1
    /\ wg' = IF path = "core" THEN wg + 1 ELSE wg
    /\ mpc' = "launch"
    /\ UNCHANGED <<cfgVars, Results, Errors, Stats, concurrency, mutex, order, fi, mainErrs, tasks>>

\* lines 358, 372-373, 389-390: (wg.Add(1) and) go a.executeAnalyzer(...)
Launch ==
    /\ mpc = "launch"
    /\ wg' = IF path = "core" THEN wg ELSE wg + 1
    /\ tasks' = Append(tasks, NewTask(order[fi]))
    /\ fi' = fi + 1
    /\ mpc' = "loop"
    /\ UNCHANGED <<cfgVars, Results, Errors, Stats, concurrency, semaphore, mutex, order, mainErrs>>

\* line 375, first half: the submitting goroutine reads a.Errors, holding no lock
UnknownFilterRead ==
    /\ mpc = "loop"
    /\ fi <= Len(order)
    /\ ~Schedules(order[fi])
    /\ path = "filters"
    /\ mainErrs' = Errors
    /\ mpc' = "errwrite"
    /\ UNCHANGED <<cfgVars, Results, Errors, Stats, concurrency, semaphore, wg, mutex, order, fi, tasks>>

\* line 375, second half: it stores the appended slice into a.Errors
UnknownFilterWrite ==
    /\ mpc = "errwrite"
    /\ Errors' = Append(mainErrs, FilterError(order[fi]))
    /\ mainErrs' = <<>>
    /\ fi' = fi + 1
    /\ mpc' = "loop"
    /\ UNCHANGED <<cfgVars, Results, Stats, concurrency, semaphore, wg, mutex, order, tasks>>

\* lines 386-391: an active filter missing from the registry is skipped
SkipActive ==
    /\ mpc = "loop"
    /\ fi <= Len(order)
    /\ ~Schedules(order[fi])
    /\ path = "active"
    /\ fi' = fi + 1
    /\ UNCHANGED <<cfgVars, Results, Errors, Stats, mpc, concurrency, semaphore, wg, mutex, order, mainErrs, tasks>>

\* lines 361, 378, 393 (and 303): the loop is over, wg.Wait() begins
EndLoop ==
    /\ mpc = "loop"
    /\ fi > Len(order)
    /\ mpc' = "wait"
    /\ UNCHANGED <<cfgVars, Results, Errors, Stats, concurrency, semaphore, wg, mutex, order, fi, mainErrs, tasks>>

\* wg.Wait() returns and the run returns
Wait ==
    /\ mpc = "wait"
    /\ wg = 0
    /\ mpc' = "done"
    /\ UNCHANGED <<cfgVars, Results, Errors, Stats, concurrency, semaphore, wg, mutex, order, fi, mainErrs, tasks>>

(* ------------------------------------------------------- executeAnalyzer *)

mainVars == <<mpc, concurrency, order, fi, mainErrs>>

\* line 412: analyzer.Analyze returns some results and possibly an error
Analyze(i) ==
    /\ tasks[i].pc = "analyze"
    /\ \E res \in AnalyzeResults(tasks[i].name), err \in {NoError} \cup AnalyzeErrors :
          tasks' = [tasks EXCEPT ![i].results = res, ![i].err = err, ![i].pc = "lock"]
    /\ UNCHANGED <<cfgVars, mainVars, Results, Errors, Stats, semaphore, wg, mutex>>

\* line 425: mutex.Lock()
Lock(i) ==
    /\ tasks[i].pc = "lock"
    /\ mutex = 0
    /\ mutex' = i
    /\ tasks' = [tasks EXCEPT ![i].pc = "record"]
    /\ UNCHANGED <<cfgVars, mainVars, Results, Errors, Stats, semaphore, wg>>

\* lines 420-423, 429-431, 437-439
StatsAfter(st, name) ==
    IF WithStats THEN Append(st, [Analyzer |-> name]) ELSE st

\* the merge done on both branches of line 428
MergedResultsOnError(res, err) == res

\* lines 428, 440: the results merged into a.Results
MergedResults(res, err) ==
    IF err # NoError THEN <<>> ELSE res

\* lines 428-440: the stat and the results are appended; on the error branch
\* a.Errors is read for the append of line 432
Record(i) ==
    /\ tasks[i].pc = "record"
    /\ Stats' = StatsAfter(Stats, tasks[i].name)
    /\ Results' = Results \o MergedResults(tasks[i].results, tasks[i].err)
    /\ tasks' = IF tasks[i].err # NoError
                THEN [tasks EXCEPT ![i].errs = Errors, ![i].pc = "writeerr"]
                ELSE [tasks EXCEPT ![i].pc = "release"]
    /\ UNCHANGED <<cfgVars, mainVars, Errors, semaphore, wg, mutex>>

\* line 432: the appended slice is stored into a.Errors
WriteError(i) ==
    /\ tasks[i].pc = "writeerr"
    /\ Errors' = Append(tasks[i].errs, TaskError(tasks[i].name, tasks[i].err))
    /\ tasks' = [tasks EXCEPT ![i].errs = <<>>, ![i].pc = "release"]
    /\ UNCHANGED <<cfgVars, mainVars, Results, Stats, semaphore, wg, mutex>>

\* line 445: <-semaphore
Release(i) ==
    /\ tasks[i].pc = "release"
    /\ semaphore > 0
    /\ semaphore' = semaphore - 1
    /\ tasks' = [tasks EXCEPT ![i].pc = "return"]
    /\ UNCHANGED <<cfgVars, mainVars, Results, Errors, Stats, wg, mutex>>

\* lines 426, 397: the deferred mutex.Unlock() and wg.Done()
Return(i) ==
    /\ tasks[i].pc = "return"
    /\ mutex' = 0
    /\ wg' = wg - 1
    /\ tasks' = [tasks EXCEPT ![i].pc = "done"]
    /\ UNCHANGED <<cfgVars, mainVars, Results, Errors, Stats, semaphore>>

TaskIds == 1..Len(tasks)

Next ==
    \/ Setup
    \/ Acquire
    \/ Launch
    \/ UnknownFilterRead
    \/ UnknownFilterWrite
    \/ SkipActive
    \/ EndLoop
    \/ Wait
    \/ \E i \in TaskIds : Analyze(i)
    \/ \E i \in TaskIds : Lock(i)
    \/ \E i \in TaskIds : Record(i)
    \/ \E i \in TaskIds : WriteError(i)
    \/ \E i \in TaskIds : Release(i)
    \/ \E i \in TaskIds : Return(i)

Spec == Init /\ [][Next]_vars

(* ----------------------------------------------------- RunCustomAnalysis *)

\* longest list of configured plugins tried
MaxPlugins == 3

PluginNames == {"p1", "p2"}
CustomConcurrencyValues == {-1, 0, 1, 2}
ConnectError == "connect"
\* the Kind a plugin may put in its result: none, or one of its own
PluginKinds == {"", "Custom"}

PluginResult(kind) ==
    [Kind |-> kind, Error |-> <<[Text |-> <<"x">>, Sensitive |-> <<>>]>>, Details |-> <<>>]

\* fmt.Sprintf("Client creation error for %s analyzer", cAnalyzer.Name)
ClientError(name) == [kind |-> "client", name |-> name, err |-> ConnectError]
\* err.Error() of the failed viper.UnmarshalKey
ConfigError == [kind |-> "config", name |-> "custom_analyzers", err |-> "unmarshal"]

InitCustom ==
    /\ MaxConcurrency \in CustomConcurrencyValues
    /\ WithStats = FALSE
    /\ Filters = <<>>
    /\ activeFilters = <<>>
    /\ customAnalyzers \in SeqsUpTo(PluginNames, MaxPlugins)
    /\ Results = <<>>
    /\ Errors = <<>>
    /\ Stats = <<>>
    /\ mpc = "start"
    /\ concurrency = 0
    /\ semaphore = 0
    /\ wg = 0
    /\ mutex = 0
    /\ order = <<>>
    /\ fi = 1
    /\ mainErrs = <<>>
    /\ tasks = <<>>
    /\ AIIdle

\* lines 242-245: the plugin list cannot be read; the error is recorded and the run returns
CustomConfigError ==
    /\ mpc = "start"
    /\ Errors' = Append(Errors, ConfigError)
    /\ mpc' = "done"
    /\ UNCHANGED <<cfgVars, Results, Stats, concurrency, semaphore, wg, mutex, order, fi, mainErrs, tasks>>

\* line 247: make(chan struct{}, a.MaxConcurrency); a negative size panics
CustomSetup ==
    /\ mpc = "start"
    /\ concurrency' = MaxConcurrency
    /\ semaphore' = 0
    /\ order' = customAnalyzers
    /\ fi' = 1
    /\ mpc' = IF MaxConcurrency < 0 THEN "panic" ELSE "loop"
    /\ UNCHANGED <<cfgVars, Results, Errors, Stats, wg, mutex, mainErrs, tasks>>

\* lines 263-264: wg.Add(1); semaphore <- struct{}{}.  The send needs room in
\* the buffer; a channel of capacity 0 needs a receiver instead, and no task
\* exists before the first send.
CustomAcquire ==
    /\ mpc = "loop"
    /\ fi <= Len(order)
    /\ semaphore < concurrency
    /\ semaphore' = semaphore + 1
    /\ wg' = wg + 1
    /\ mpc' = "launch"
    /\ UNCHANGED <<cfgVars, Results, Errors, Stats, concurrency, mutex, order, fi, mainErrs, tasks>>

\* line 265: go func(...); the loop variable is per iteration
CustomLaunch ==
    /\ mpc = "launch"
    /\ tasks' = Append(tasks, [NewTask(order[fi]) EXCEPT !.pc = "connect"])
    /\ fi' = fi + 1
    /\ mpc' = "loop"
    /\ UNCHANGED <<cfgVars, Results, Errors, Stats, concurrency, semaphore, wg, mutex, order, mainErrs>>

\* line 267: custom.NewClient succeeds or fails
Connect(i) ==
    /\ tasks[i].pc = "connect"
    /\ \E err \in {NoError, ConnectError} :
          tasks' = [tasks EXCEPT ![i].err = err,
                                 ![i].pc = IF err = NoError THEN "run" ELSE "lock"]
    /\ UNCHANGED <<cfgVars, mainVars, Results, Errors, Stats, semaphore, wg, mutex>>

\* the result stored with the Kind the plugin returned
DefaultKindKept(res, name) == res

\* lines 279-284: an empty Kind is replaced by the plugin's name
DefaultKind(res, name) ==
    IF res.Kind = "" THEN [res EXCEPT !.Kind = name] ELSE res

\* lines 278-284: canClient.Run() returns a result and possibly an error
Run(i) ==
    /\ tasks[i].pc = "run"
    /\ \E kind \in PluginKinds, err \in {NoError} \cup AnalyzeErrors :
          tasks' = [tasks EXCEPT ![i].results = <<DefaultKind(PluginResult(kind), tasks[i].name)>>,
                                 ![i].err = err,
                                 ![i].pc = "lock"]
    /\ UNCHANGED <<cfgVars, mainVars, Results, Errors, Stats, semaphore, wg, mutex>>

\* lines 269, 286, 293: mutex.Lock()
CustomLock(i) ==
    /\ tasks[i].pc = "lock"
    /\ mutex = 0
    /\ mutex' = i
    /\ tasks' = [tasks EXCEPT ![i].pc = "append"]
    /\ UNCHANGED <<cfgVars, mainVars, Results, Errors, Stats, semaphore, wg>>

\* lines 270, 287, 294: the one append of the task
CustomAppend(i) ==
    /\ tasks[i].pc = "append"
    /\ Errors' = IF tasks[i].err = ConnectError THEN Append(Errors, ClientError(tasks[i].name))
                 ELSE IF tasks[i].err # NoError
                      THEN Append(Errors, TaskError(tasks[i].name, tasks[i].err))
                 ELSE Errors
    /\ Results' = IF tasks[i].err = NoError THEN Results \o tasks[i].results ELSE Results
    /\ tasks' = [tasks EXCEPT ![i].pc = "unlock"]
    /\ UNCHANGED <<cfgVars, mainVars, Stats, semaphore, wg, mutex>>

\* whether the task goes on to line 300 after its unlock (line 272 returns instead)
ReachesRelease(err) == err # ConnectError

\* lines 271-272 with the deferred wg.Done() of line 266, or lines 288, 295
CustomUnlock(i) ==
    /\ tasks[i].pc = "unlock"
    /\ mutex' = 0
    /\ wg' = IF ReachesRelease(tasks[i].err) THEN wg ELSE wg - 1
    /\ tasks' = [tasks EXCEPT ![i].pc = IF ReachesRelease(tasks[i].err) THEN "release" ELSE "done"]
    /\ UNCHANGED <<cfgVars, mainVars, Results, Errors, Stats, semaphore>>

\* lines 300-301: <-semaphore, then the deferred wg.Done()
CustomRelease(i) ==
    /\ tasks[i].pc = "release"
    /\ semaphore > 0
    /\ semaphore' = semaphore - 1
    /\ wg' = wg - 1
    /\ tasks' = [tasks EXCEPT ![i].pc = "done"]
    /\ UNCHANGED <<cfgVars, mainVars, Results, Errors, Stats, mutex>>

NextCustom ==
    \/ CustomConfigError
    \/ CustomSetup
    \/ CustomAcquire
    \/ CustomLaunch
    \/ EndLoop
    \/ Wait
    \/ \E i \in TaskIds : Connect(i)
    \/ \E i \in TaskIds : Run(i)
    \/ \E i \in TaskIds : CustomLock(i)
    \/ \E i \in TaskIds : CustomAppend(i)
    \/ \E i \in TaskIds : CustomUnlock(i)
    \/ \E i \in TaskIds : CustomRelease(i)

SpecCustom == InitCustom /\ [][NextCustom]_vars

\* the submitting loop waits for a slot that no task will ever free
CustomStuck ==
    /\ mpc = "loop"
    /\ fi <= Len(order)
    /\ semaphore >= concurrency
    /\ \A i \in TaskIds : tasks[i].pc = "done"

\* C3: a plugin whose connection could not be constructed never leaves the
\* submitting loop waiting for a slot that no task will free: the remaining
\* plugins are launched and the call returns.
C3_FailedPluginNeverBlocks ==
    ~(CustomStuck /\ \E i \in TaskIds : tasks[i].err = ConnectError)


(* ---------------------------------------------------------- GetAIResults *)

\* longest list of results explained
MaxResults == 2

Language == "english"
Providers == {"openai", "customrest"}
\* ai.CustomRestClientName
CustomRestClientName == "customrest"

\* a.PromptMap: the default template and the one registered for a Kind
PromptKinds == {"default", "Custom"}
PromptMap(kind) == IF kind = "Custom" THEN "custom-template" ELSE "default-template"

FPlain == [Text |-> <<"x">>, Sensitive |-> <<>>]
FSecret == [Text |-> <<"u", "x">>,
            Sensitive |-> <<[Unmasked |-> <<"u">>, Masked |-> <<"m">>]>>]

\* a failure whose text reads like the masked text of FSecret
FMasked == [Text |-> <<"m", "x">>, Sensitive |-> <<>>]

\* the results a run may have left in a.Results
SampleResults ==
    { [Kind |-> "Pod", Error |-> <<FPlain>>, Details |-> <<>>],
      [Kind |-> "Custom", Error |-> <<FPlain>>, Details |-> <<>>],
      [Kind |-> "Pod", Error |-> <<FSecret, FPlain>>, Details |-> <<>>],
      [Kind |-> "Custom", Error |-> <<FMasked, FPlain>>, Details |-> <<>>] }

\* what GetCompletion may answer, and the errors it and Cache.Load may return
Responses == {<<>>, <<"r">>, <<"m">>}
\* remote errors that report HTTP status 429, and remote errors that do not
QuotaErrors == {"status code: 429", "error, status code: 429, message: slow down"}
OtherErrors == {"status code: 42", "error, status code: 500", "timeout"}
RemoteErrors == QuotaErrors \cup OtherErrors
LoadErrors == {"read failed"}

RECURSIVE ReplaceAll(_, _, _)
\* strings.ReplaceAll: the non-overlapping occurrences of old, left to right
ReplaceAll(s, old, new) ==
    IF Len(old) = 0
    THEN IF Len(s) = 0 THEN new
         ELSE new \o <<Head(s)>> \o ReplaceAll(Tail(s), old, new)
    ELSE IF Len(s) < Len(old) THEN s
    ELSE IF SubSeq(s, 1, Len(old)) = old
         THEN new \o ReplaceAll(SubSeq(s, Len(old) + 1, Len(s)), old, new)
    ELSE <<Head(s)>> \o ReplaceAll(Tail(s), old, new)

\* util.ReplaceIfMatch: every occurrence of the pattern is replaced
ReplaceIfMatch(text, pattern, replacement) == ReplaceAll(text, pattern, replacement)

\* the masking pass that applies the first pair only
MaskTextFirst(text, sensitive, n) ==
    IF n = 0 THEN text
    ELSE ReplaceIfMatch(text, sensitive[1].Unmasked, sensitive[1].Masked)

RECURSIVE MaskText(_, _, _)
\* lines 472-474: the pairs 1..n of a failure applied in list order
MaskText(text, sensitive, n) ==
    IF n = 0 THEN text
    ELSE ReplaceIfMatch(MaskText(text, sensitive, n - 1),
                        sensitive[n].Unmasked, sensitive[n].Masked)

\* lines 470-477: the text of each failure, masked when anonymize is set
Texts(analysis, anon) ==
    [k \in 1..Len(analysis.Error) |->
        IF anon
        THEN MaskText(analysis.Error[k].Text, analysis.Error[k].Sensitive,
                      Len(analysis.Error[k].Sensitive))
        ELSE analysis.Error[k].Text]

RECURSIVE Join(_, _)
\* strings.Join(texts, " ") of the first n texts
Join(texts, n) ==
    IF n = 0 THEN <<>>
    ELSE IF n = 1 THEN texts[1]
    ELSE Join(texts, n - 1) \o <<" ">> \o texts[n]

RECURSIVE UnmaskPairsSwapped(_, _, _)
\* the unmasking pass with the arguments of the replacement exchanged
UnmaskPairsSwapped(text, sensitive, n) ==
    IF n = 0 THEN text
    ELSE ReplaceAll(UnmaskPairsSwapped(text, sensitive, n - 1),
                    sensitive[n].Unmasked, sensitive[n].Masked)

RECURSIVE UnmaskPairs(_, _, _)
\* lines 502-504: the pairs 1..n of one failure applied to the response
UnmaskPairs(text, sensitive, n) ==
    IF n = 0 THEN text
    ELSE ReplaceAll(UnmaskPairs(text, sensitive, n - 1),
                    sensitive[n].Masked, sensitive[n].Unmasked)

RECURSIVE Unmask(_, _, _)
\* lines 501-505: the failures 1..n of the result, in order
Unmask(text, failures, n) ==
    IF n = 0 THEN text
    ELSE UnmaskPairs(Unmask(text, failures, n - 1), failures[n].Sensitive,
                     Len(failures[n].Sensitive))

\* lines 479-484
PromptTemplate(kind) ==
    IF kind \in PromptKinds THEN PromptMap(kind) ELSE PromptMap("default")

\* util.GetCacheKey
GetCacheKey(prov, lang, key) == <<prov, lang, key>>

\* lines 539-542: the rendered prompt
Prompt(tmpl, key) ==
    IF provider = CustomRestClientName
    THEN [tmpl |-> "raw", lang |-> Language, text |-> key, inner |-> tmpl]
    ELSE [tmpl |-> tmpl, lang |-> Language, text |-> key, inner |-> ""]

RECURSIVE EncodeToString(_)
\* base64.StdEncoding.EncodeToString: an injective code over another alphabet,
\* longer than its input, that maps the empty text to the empty payload
EncodeToString(s) ==
    IF Len(s) = 0 THEN <<>> ELSE <<"#", Head(s)>> \o EncodeToString(Tail(s))

Decodable(p) ==
    /\ Len(p) % 2 = 0
    /\ \A k \in 1..Len(p) : (k % 2 = 1) => p[k] = "#"

\* base64.StdEncoding.DecodeString, for a decodable payload
DecodeString(p) == [k \in 1..(Len(p) \div 2) |-> p[2 * k]]

\* the payloads an earlier run may have left in the cache
StalePayloads == {EncodeToString(<<"c">>), <<"!">>, <<>>}

cacheKey == GetCacheKey(provider, Language, inputKey)
Exists(key) == \E e \in cache : e.key = key
Payload(key) == (CHOOSE e \in cache : e.key = key).payload
\* Cache.Store on an enabled cache; a disabled cache stores nothing
Stored(key, payload) ==
    IF cacheDisabled THEN cache
    ELSE {e \in cache : e.key # key} \cup {[key |-> key, payload |-> payload]}

runIdle == <<MaxConcurrency, WithStats, Filters, activeFilters, customAnalyzers, Errors, Stats,
             mpc, concurrency, semaphore, wg, mutex, order, fi, mainErrs, tasks>>

InitExplain ==
    /\ MaxConcurrency = 1
    /\ WithStats = FALSE
    /\ Filters = <<>>
    /\ activeFilters = <<>>
    /\ customAnalyzers = <<>>
    /\ Results \in SeqsUpTo(SampleResults, MaxResults)
    /\ Errors = <<>>
    /\ Stats = <<>>
    /\ mpc = "done"
    /\ concurrency = 0
    /\ semaphore = 0
    /\ wg = 0
    /\ mutex = 0
    /\ order = <<>>
    /\ fi = 1
    /\ mainErrs = <<>>
    /\ tasks = <<>>
    /\ provider \in Providers
    /\ anonymize \in BOOLEAN
    /\ cacheDisabled \in BOOLEAN
    /\ cache \in {{}} \cup
          {{[key |-> GetCacheKey(provider, Language, <<"x">>), payload |-> p]} : p \in StalePayloads}
    /\ apc = "start"
    /\ index = 0
    /\ inputKey = <<>>
    /\ promptTmpl = ""
    /\ result = <<>>
    /\ aerr = NoProviderError
    /\ existsCalls = 0
    /\ loadCalls = 0
    /\ remote = <<>>
    /\ calls = <<>>

\* lines 448-463: an empty result list returns at once
Begin ==
    /\ apc = "start"
    /\ index' = 1
    /\ apc' = IF Len(Results) = 0 THEN "done" ELSE "prepare"
    /\ UNCHANGED <<runIdle, Results, provider, anonymize, cacheDisabled, cache, inputKey,
                   promptTmpl, result, aerr, existsCalls, loadCalls, remote, calls>>

\* the cache consulted whatever its state
ConsultsCacheAlways(disabled) == TRUE

\* line 523, left operand: whether the cache is consulted at all
ConsultsCache(disabled) == ~disabled

\* lines 463-485 and 518-523: the texts are masked and joined, the template is
\* chosen, and the cache is asked whether it holds the key
Prepare ==
    /\ apc = "prepare"
    /\ LET texts == Texts(Results[index], anonymize)
           key == Join(texts, Len(texts))
           consult == ConsultsCache(cacheDisabled)
       IN  /\ inputKey' = key
           /\ promptTmpl' = PromptTemplate(Results[index].Kind)
           /\ existsCalls' = IF consult THEN existsCalls + 1 ELSE existsCalls
           /\ apc' = IF consult /\ Exists(GetCacheKey(provider, Language, key))
                     THEN "load" ELSE "remote"
    /\ UNCHANGED <<runIdle, Results, provider, anonymize, cacheDisabled, cache, index,
                   result, aerr, loadCalls, remote, calls>>

\* strings.Contains
Contains(s, substr) ==
    \E k \in 1..(Len(s) - Len(substr) + 1) : SubSeq(s, k, k + Len(substr) - 1) = substr

\* the classification with the message compared for equality
ProviderErrorExact(err) ==
    [kind |-> IF err = "status code: 429" THEN "exhausted" ELSE "failed",
     provider |-> provider, cause |-> err]

\* line 494-497: the error GetAIResults returns for a failed call
ProviderError(err) ==
    [kind |-> IF Contains(err, "status code: 429") THEN "exhausted" ELSE "failed",
     provider |-> provider, cause |-> err]

\* the record of one call: its key, where its answer came from, the answer, and
\* the payload handed to Cache.Store with whether the cache kept it
Call(source, out, payload, stored) ==
    [key |-> cacheKey, source |-> source, out |-> out, payload |-> payload, stored |-> stored]

\* lines 524-527, 486-497: Cache.Load fails and the error is returned
LoadFails ==
    /\ apc = "load"
    /\ loadCalls' = loadCalls + 1
    /\ \E err \in LoadErrors : aerr' = ProviderError(err)
    /\ calls' = Append(calls, Call("loaderror", <<>>, <<>>, FALSE))
    /\ apc' = "done"
    /\ UNCHANGED <<runIdle, Results, provider, anonymize, cacheDisabled, cache, index,
                   inputKey, promptTmpl, result, existsCalls, remote>>

\* no loaded payload is returned as the response
UsesPayloadNever(p) == FALSE

\* line 529-533: whether the loaded payload is returned as the response
UsesPayload(p) == p # <<>> /\ Decodable(p)

\* lines 524-535: Cache.Load succeeds; a non-empty payload that decodes is the
\* response, any other payload is ignored
Load ==
    /\ apc = "load"
    /\ loadCalls' = loadCalls + 1
    /\ LET p == Payload(cacheKey)
       IN  IF UsesPayload(p)
           THEN /\ result' = DecodeString(p)
                /\ calls' = Append(calls, Call("cache", DecodeString(p), <<>>, FALSE))
                /\ apc' = "assign"
           ELSE /\ UNCHANGED <<result, calls>>
                /\ apc' = "remote"
    /\ UNCHANGED <<runIdle, Results, provider, anonymize, cacheDisabled, cache, index,
                   inputKey, promptTmpl, aerr, existsCalls, remote>>

\* lines 539-546, 486-497: GetCompletion fails and the error is returned
RemoteFails ==
    /\ apc = "remote"
    /\ remote' = Append(remote, Prompt(promptTmpl, inputKey))
    /\ \E err \in RemoteErrors : aerr' = ProviderError(err)
    /\ calls' = Append(calls, Call("remoteerror", <<>>, <<>>, FALSE))
    /\ apc' = "done"
    /\ UNCHANGED <<runIdle, Results, provider, anonymize, cacheDisabled, cache, index,
                   inputKey, promptTmpl, result, existsCalls, loadCalls>>

\* lines 539-543: GetCompletion answers
Remote ==
    /\ apc = "remote"
    /\ remote' = Append(remote, Prompt(promptTmpl, inputKey))
    /\ \E response \in Responses : result' = response
    /\ apc' = "store"
    /\ UNCHANGED <<runIdle, Results, provider, anonymize, cacheDisabled, cache, index,
                   inputKey, promptTmpl, aerr, existsCalls, loadCalls, calls>>

\* the response stored as it is
StorePayloadRaw(response) == response

\* line 548: the payload handed to Cache.Store
StorePayload(response) == EncodeToString(response)

\* lines 548-551: Cache.Store keeps the payload, or fails and is only logged
Store ==
    /\ apc = "store"
    /\ \E ok \in BOOLEAN :
          /\ cache' = IF ok THEN Stored(cacheKey, StorePayload(result)) ELSE cache
          /\ calls' = Append(calls, Call("remote", result, StorePayload(result),
                                         ok /\ ~cacheDisabled))
    /\ apc' = "assign"
    /\ UNCHANGED <<runIdle, Results, provider, anonymize, cacheDisabled, index,
                   inputKey, promptTmpl, result, aerr, existsCalls, loadCalls, remote>>

\* the response written to the result and to every result after it
WriteBackOnward(results, i, analysis) ==
    [k \in 1..Len(results) |->
        IF k = i THEN analysis
        ELSE IF k > i THEN [results[k] EXCEPT !.Details = analysis.Details]
        ELSE results[k]]

\* line 512: a.Results[index] = analysis
WriteBack(results, i, analysis) == [results EXCEPT ![i] = analysis]

\* the Details set on a result whose failures keep the text sent
ExplainedMasked(analysis, details) ==
    [analysis EXCEPT !.Details = details,
                     !.Error = [k \in 1..Len(analysis.Error) |->
                                   [analysis.Error[k] EXCEPT
                                       !.Text = Texts(analysis, anonymize)[k]]]]

\* line 508: analysis.Details = result, on the loop's copy of the result
Explained(analysis, details) == [analysis EXCEPT !.Details = details]

\* lines 500-513: the response is unmasked and stored as the result's Details
Assign ==
    /\ apc = "assign"
    /\ LET analysis == Results[index]
           details == IF anonymize
                      THEN Unmask(result, analysis.Error, Len(analysis.Error))
                      ELSE result
       IN  Results' = WriteBack(Results, index, Explained(analysis, details))
    /\ index' = index + 1
    /\ apc' = IF index + 1 > Len(Results) THEN "done" ELSE "prepare"
    /\ UNCHANGED <<runIdle, provider, anonymize, cacheDisabled, cache, inputKey, promptTmpl,
                   result, aerr, existsCalls, loadCalls, remote, calls>>

NextExplain ==
    \/ Begin
    \/ Prepare
    \/ LoadFails
    \/ Load
    \/ RemoteFails
    \/ Remote
    \/ Store
    \/ Assign

SpecExplain == InitExplain /\ [][NextExplain]_vars

(* ------------------------------------------- GetAIResults: anonymization *)

\* longest failure text tried
MaxTextLen == 3
\* longest list of sensitive pairs tried
MaxPairs == 2

\* the characters of failure texts, the values an analyzer registers as
\* sensitive, and the values it registers as their masks
TextChars == {"a", "b"}
Secrets == {<<"a">>, <<"b">>, <<"a", "b">>}
Masks == {<<"b">>, <<"c">>, <<"a", "a">>, <<"b", "a">>}

FailureTexts == SeqsUpTo(TextChars, MaxTextLen)
SensitiveLists == SeqsUpTo([Unmasked : Secrets, Masked : Masks], MaxPairs)

\* one result with one failure, its text and its sensitive pairs as an
\* analyzer may have left them; the cache is enabled and empty
InitAnonymize ==
    /\ MaxConcurrency = 1
    /\ WithStats = FALSE
    /\ Filters = <<>>
    /\ activeFilters = <<>>
    /\ customAnalyzers = <<>>
    /\ \E text \in FailureTexts, sensitive \in SensitiveLists :
          Results = <<[Kind |-> "Pod",
                       Error |-> <<[Text |-> text, Sensitive |-> sensitive]>>,
                       Details |-> <<>>]>>
    /\ Errors = <<>>
    /\ Stats = <<>>
    /\ mpc = "done"
    /\ concurrency = 0
    /\ semaphore = 0
    /\ wg = 0
    /\ mutex = 0
    /\ order = <<>>
    /\ fi = 1
    /\ mainErrs = <<>>
    /\ tasks = <<>>
    /\ provider = "openai"
    /\ anonymize = TRUE
    /\ cacheDisabled = FALSE
    /\ cache = {}
    /\ apc = "start"
    /\ index = 0
    /\ inputKey = <<>>
    /\ promptTmpl = ""
    /\ result = <<>>
    /\ aerr = NoProviderError
    /\ existsCalls = 0
    /\ loadCalls = 0
    /\ remote = <<>>
    /\ calls = <<>>

\* lines 539-543: GetCompletion answers with the text it was sent
RemoteEchoes ==
    /\ apc = "remote"
    /\ remote' = Append(remote, Prompt(promptTmpl, inputKey))
    /\ result' = inputKey
    /\ apc' = "store"
    /\ UNCHANGED <<runIdle, Results, provider, anonymize, cacheDisabled, cache, index,
                   inputKey, promptTmpl, aerr, existsCalls, loadCalls, calls>>

NextAnonymize ==
    \/ Begin
    \/ Prepare
    \/ RemoteEchoes
    \/ Store
    \/ Assign

SpecAnonymize == InitAnonymize /\ [][NextAnonymize]_vars

(* ------------------------------------------------ GetAIResults: properties *)

CallIds == 1..Len(calls)
CalledRemote(k) == calls[k].source \in {"remote", "remoteerror"}

\* C6 as stated: of two calls with the same key on an enabled cache, the first
\* of which got any response from the remote service and stored it, the second
\* makes no remote call and returns the decoded payload the first one stored.
C6_SecondRequestHitsCache ==
    \A i, j \in CallIds :
        (i < j /\ calls[i].key = calls[j].key /\ calls[i].source = "remote" /\ calls[i].stored)
            => /\ ~CalledRemote(j)
               /\ calls[j].source = "cache" => calls[j].out = DecodeString(calls[i].payload)

\* C6, amended: of two calls with the same key on an enabled cache, the first
\* of which got a non-empty response that the cache stored, the second makes
\* no remote call; it returns the decoded payload the first one stored, unless
\* loading the entry fails, which ends it with that error.
C6_StoredResponseServedFromCache ==
    \A i, j \in CallIds :
        (i < j /\ calls[i].key = calls[j].key /\ calls[i].source = "remote"
               /\ calls[i].stored /\ calls[i].out # <<>>)
            => /\ ~CalledRemote(j)
               /\ calls[j].source \in {"cache", "loaderror"}
               /\ calls[j].source = "cache" => calls[j].out = DecodeString(calls[i].payload)

\* C6: a second call answered from the entry stored by the first
C6_Witness ==
    \E i, j \in CallIds :
        /\ i < j /\ calls[i].key = calls[j].key
        /\ calls[i].source = "remote" /\ calls[i].stored /\ calls[i].out # <<>>
        /\ calls[j].source = "cache"
        /\ apc = "done"

\* C7: every error GetAIResults returns comes from a failed remote call, never
\* from a cache operation.
C7_CacheFailureNeverFails ==
    aerr # NoProviderError => (calls # <<>> /\ calls[Len(calls)].source = "remoteerror")

\* the number of results whose remote call, if any, has been made
PastRemote ==
    CASE apc \in {"store", "assign"} -> index
      [] apc = "done" /\ aerr # NoProviderError -> index
      [] apc = "start" -> 0
      [] OTHER -> index - 1

ResultKey(k) == Join(Texts(Results[k], anonymize), Len(Results[k].Error))

\* C10: with the cache disabled, Exists and Load are never called and each
\* result processed has caused exactly one remote call, made with its texts.
C10_DisabledCacheNeverConsulted ==
    cacheDisabled =>
        /\ existsCalls = 0
        /\ loadCalls = 0
        /\ Len(remote) = PastRemote
        /\ \A k \in 1..Len(remote) : remote[k].text = ResultKey(k)

\* C10: two results explained with the cache disabled although it holds an
\* entry for the first one's key
C10_Witness ==
    /\ cacheDisabled
    /\ apc = "done" /\ aerr = NoProviderError
    /\ Len(Results) = 2 /\ Len(remote) = 2
    /\ Exists(GetCacheKey(provider, Language, ResultKey(1)))

\* the call has ended with the error of a failed remote call
RemoteAborted == apc = "done" /\ calls # <<>> /\ calls[Len(calls)].source = "remoteerror"

\* the Details a result gets from the response of its call
DetailsOf(k) ==
    IF anonymize THEN Unmask(calls[k].out, Results[k].Error, Len(Results[k].Error))
    ELSE calls[k].out

\* after a failed remote call for result index: an error is returned, the
\* failed call is the last one, the results before index hold the Details of
\* their responses, the results from index on are as the run left them, and
\* GetAIResults takes no further step
AbortedAtIndex ==
    RemoteAborted =>
        /\ aerr # NoProviderError
        /\ Len(calls) = index
        /\ \A k \in 1..(index - 1) : Results[k].Details = DetailsOf(k)
        /\ \A k \in index..Len(Results) : Results[k] \in SampleResults
        /\ ~ENABLED NextExplain

\* the step of the failed remote call touches no result and no cache state
AbortStep ==
    (apc = "remote" /\ aerr' # NoProviderError)
        => /\ apc' = "done"
           /\ UNCHANGED <<Results, cache, existsCalls, loadCalls, index>>

\* C11: when the remote call fails for result k, GetAIResults returns an error
\* at once: results before k keep the Details assigned to them, results k and
\* later are unmodified, and no cache or remote call follows.
C11_RemoteFailureAborts == [](AbortedAtIndex) /\ [][AbortStep]_vars

\* C11: the remote call fails for the second result after the first was explained
C11_Witness ==
    /\ RemoteAborted
    /\ index = 2
    /\ Results[1].Details # <<>>
    /\ Len(Results) = 2

\* C12: a failed remote call whose message contains "status code: 429" is
\* returned as the quota-exhaustion error, any other as the generic
\* provider-call-failed error, each carrying the provider's name.
C12_QuotaErrorClassified ==
    RemoteAborted =>
        /\ aerr.provider = provider
        /\ aerr.cause \in RemoteErrors
        /\ aerr.cause \in QuotaErrors => aerr.kind = "exhausted"
        /\ aerr.cause \in OtherErrors => aerr.kind = "failed"

\* C12: the quota error returned for a message that holds the status inside a longer text
C12_Witness ==
    /\ RemoteAborted
    /\ aerr.kind = "exhausted"
    /\ aerr.cause # "status code: 429"
    /\ aerr.provider = "customrest"

\* the failure of the one result explained, and what became of it
Failure == Results[1].Error[1]
Explanation == Results[1].Details
SentText == remote[1].text
Answered == apc = "done" /\ Len(Results) = 1 /\ Len(Results[1].Error) = 1 /\ Len(remote) = 1

\* the start positions of the occurrences of substr in s
Occurrences(s, substr) ==
    {k \in 1..(Len(s) - Len(substr) + 1) : SubSeq(s, k, k + Len(substr) - 1) = substr}

RECURSIVE ReplacedAt(_, _, _, _)
\* the start positions, in ReplaceAll(s, old, new), of the copies of new that
\* the replacement wrote, counted from position base + 1
ReplacedAt(s, old, new, base) ==
    IF Len(s) < Len(old) \/ Len(old) = 0 THEN {}
    ELSE IF SubSeq(s, 1, Len(old)) = old
         THEN {base + 1} \cup ReplacedAt(SubSeq(s, Len(old) + 1, Len(s)), old, new, base + Len(new))
    ELSE ReplacedAt(Tail(s), old, new, base + 1)

\* a failure with the single pair {U, M} whose text contains U and not M
SinglePair ==
    /\ Len(Failure.Sensitive) = 1
    /\ Contains(Failure.Text, Failure.Sensitive[1].Unmasked)
    /\ ~Contains(Failure.Text, Failure.Sensitive[1].Masked)

\* M occurs in the masked text only where masking wrote it
MaskOnlyWhereWritten ==
    LET U == Failure.Sensitive[1].Unmasked
        M == Failure.Sensitive[1].Masked
    IN  Occurrences(SentText, M) = ReplacedAt(Failure.Text, U, M, 0)

\* C13 as stated: for a single pair {U, M} and a text T that contains U and
\* not M, masking T and unmasking the masked text reproduces T.
C13_RoundTrip ==
    (Answered /\ SinglePair) => Explanation = Failure.Text

\* C13, amended: for a single pair {U, M} and a text T that contains U and not
\* M, masking T and unmasking the masked text reproduces T whenever M occurs
\* in the masked text only at the places where masking wrote it.
C13_RoundTripOfDistinctMask ==
    (Answered /\ SinglePair /\ MaskOnlyWhereWritten) => Explanation = Failure.Text

\* C13: a text with two adjacent secrets, masked by a value that shares a
\* character with the text, sent masked and restored
C13_Witness ==
    /\ Answered /\ SinglePair /\ MaskOnlyWhereWritten
    /\ Failure.Text = <<"a", "a", "b">>
    /\ Failure.Sensitive[1] = [Unmasked |-> <<"a">>, Masked |-> <<"b", "a">>]
    /\ SentText = <<"b", "a", "b", "a", "b">>
    /\ Explanation = Failure.Text

RECURSIVE MadeOf(_, _)
\* whether the text is a concatenation of values of the set
MadeOf(text, values) ==
    \/ Len(text) = 0
    \/ \E v \in values :
          /\ 0 < Len(v) /\ Len(v) <= Len(text)
          /\ SubSeq(text, 1, Len(v)) = v
          /\ MadeOf(SubSeq(text, Len(v) + 1, Len(text)), values)

Registered == {Failure.Sensitive[k].Unmasked : k \in 1..Len(Failure.Sensitive)}

\* C14: for a failure with several sensitive pairs and a text made only of
\* registered substrings, masking with the pairs in list order and unmasking
\* with them in list order reproduces the text, whatever the pairs share.
C14_MaskUnmaskIdentity ==
    (Answered /\ Len(Failure.Sensitive) > 1 /\ MadeOf(Failure.Text, Registered))
        => Explanation = Failure.Text

\* an Unmasked value registered on the failure occurs in the text
Exposes(text) ==
    \E k \in 1..Len(Failure.Sensitive) : Contains(text, Failure.Sensitive[k].Unmasked)

\* the text of the request sent and the text in the key of the call made
NothingExposed ==
    /\ \A k \in 1..Len(remote) : ~Exposes(remote[k].text)
    /\ \A k \in 1..Len(calls) : ~Exposes(calls[k].key[3])
    /\ apc \notin {"start", "prepare"} => ~Exposes(cacheKey[3])

MasksApart ==
    \A j, k \in 1..Len(Failure.Sensitive) :
        /\ Failure.Sensitive[j].Masked # <<>>
        /\ Range(Failure.Sensitive[j].Masked) \cap Range(Failure.Sensitive[k].Unmasked) = {}

OnlyDetailsOfIndex ==
    /\ Len(Results') = Len(Results)
    /\ index' >= index
    /\ \A k \in 1..Len(Results) :
          /\ Results'[k].Kind = Results[k].Kind
          /\ Results'[k].Error = Results[k].Error
          /\ Results'[k].Details # Results[k].Details
                => (apc = "assign" /\ k = index /\ index' = index + 1)

\* C19: GetAIResults changes nothing in a result except Details, which it
\* sets at most once per call: Kind, failures, their Text and sensitive pairs
\* and the number and order of results stay as they were, with anonymization
\* on or off.
C19_OnlyDetailsChange == [][OnlyDetailsOfIndex]_vars

\* C19: a result with a sensitive pair was explained under anonymization with
\* a request that held the masked text, and still stores the original text
C19_Witness ==
    /\ apc = "done" /\ anonymize /\ aerr = NoProviderError
    /\ Len(Results) = 2
    /\ Results[2].Error = <<FSecret, FPlain>>
    /\ Results[2].Details # <<>>
    /\ \E k \in 1..Len(remote) : remote[k].text = <<"m", "x", " ", "x">>

\* two results of Kinds with different templates and the same joined text,
\* explained with the cache enabled
SameTextTwoKinds ==
    /\ ~cacheDisabled
    /\ Len(Results) = 2
    /\ PromptTemplate(Results[1].Kind) # PromptTemplate(Results[2].Kind)
    /\ ResultKey(1) = ResultKey(2)

FirstAskedRemote == calls # <<>> /\ calls[1].source = "remote"
BothExplained == apc = "done" /\ aerr = NoProviderError

\* C20 as stated: two results of different Kinds with the same joined text,
\* the first of which was answered by the remote service, cause a single
\* remote call, made with the first result's template, and the second result
\* has the Details of the first.
C20_OneCallForSameText ==
    (SameTextTwoKinds /\ FirstAskedRemote /\ BothExplained)
        => /\ Len(remote) = 1
           /\ remote[1] = Prompt(PromptTemplate(Results[1].Kind), ResultKey(1))
           /\ Results[2].Details = Results[1].Details

\* the first call got a non-empty response that the cache stored
FirstStored == FirstAskedRemote /\ calls[1].stored /\ calls[1].out # <<>>

\* C20, amended: two results of different Kinds with the same joined text,
\* the first of which gets a non-empty response from the remote service that
\* the cache stores, cause a single remote call, made with the first result's
\* template; the second result is answered from the cache with that response,
\* unmasked by its own pairs under anonymization, unless loading the entry
\* fails, which ends the call with that error and leaves it without Details.
C20_OneCallForStoredText ==
    (SameTextTwoKinds /\ FirstStored)
        => /\ Len(remote) = 1
           /\ remote[1] = Prompt(PromptTemplate(Results[1].Kind), ResultKey(1))
           /\ Len(calls) = 2 => calls[2].source \in {"cache", "loaderror"}
           /\ BothExplained
                => /\ calls[2].out = calls[1].out
                   /\ Results[2].Details = DetailsOf(2)
                   /\ ~anonymize => Results[2].Details = Results[1].Details
           /\ (apc = "done" /\ aerr # NoProviderError) => Results[2].Details = <<>>

\* C20: a Pod result and a Custom result with the same text, the second
\* answered from the entry stored for the first
C20_Witness ==
    /\ SameTextTwoKinds /\ FirstStored /\ BothExplained
    /\ Results[1].Kind = "Pod" /\ Results[2].Kind = "Custom"
    /\ calls[2].source = "cache"
    /\ Results[2].Details = Results[1].Details
    /\ remote[1].text = <<"x">>

(* ------------------------------------------------- RunAnalysis: properties *)

Recorded(i) == tasks[i].pc \in {"release", "return", "done"}
Failed(i) == tasks[i].err # NoError
TasksRunning == \E i \in TaskIds : tasks[i].pc # "done"

SameBag(a, b) ==
    /\ Len(a) = Len(b)
    /\ \A x \in Range(a) \cup Range(b) :
          Count(a, LAMBDA y : y = x) = Count(b, LAMBDA y : y = x)

RECURSIVE ResultsOf(_)
\* the results returned by the tasks of the set S, in launch order
ResultsOf(S) ==
    IF S = {} THEN <<>>
    ELSE LET m == CHOOSE i \in S : \A j \in S : j <= i
         IN  ResultsOf(S \ {m}) \o tasks[m].results

\* the names of the launched tasks, in launch order
TaskNames == [i \in TaskIds |-> tasks[i].name]
InRegistry(name) == name \in AnalyzerMap

\* every failed task of the name has left exactly one tagged entry
OneErrorPerFailedTask(name) ==
    Count(Errors, LAMBDA e : e.kind = "task" /\ e.name = name)
        = Cardinality({i \in TaskIds : tasks[i].name = name /\ Failed(i)})

\* slots taken by tasks whose Analyze has not returned (or that are being launched)
InFlight ==
    Cardinality({i \in TaskIds : tasks[i].pc = "analyze"}) + (IF mpc = "launch" THEN 1 ELSE 0)

\* C1: when RunAnalysis has returned, every task has finished, Results is the
\* union of the results of exactly the tasks that returned no error, and Errors
\* holds exactly one "[<task name>]" entry per failed task.
C1_RunOutcome ==
    mpc = "done" =>
        /\ \A i \in TaskIds : tasks[i].pc = "done"
        /\ SameBag(Results, ResultsOf({i \in TaskIds : ~Failed(i)}))
        /\ \A i \in TaskIds : OneErrorPerFailedTask(tasks[i].name)

\* C2: the semaphore's capacity is 10 for MaxConcurrency <= 0, 100 for
\* MaxConcurrency > 100 and MaxConcurrency otherwise, and the number of tasks
\* in flight never exceeds it.
C2_ConcurrencyLimit ==
    mpc # "start" =>
        /\ concurrency = (IF MaxConcurrency <= 0 THEN 10
                          ELSE IF MaxConcurrency > 100 THEN 100 ELSE MaxConcurrency)
        /\ InFlight <= concurrency
        /\ semaphore <= concurrency

\* C2: three tasks under limit 1, the third in flight: the limit is reached
C2_Witness ==
    /\ MaxConcurrency = 1
    /\ Len(tasks) = 3
    /\ InFlight = concurrency
    /\ tasks[1].pc = "done" /\ tasks[2].pc = "done"

MutexOnlyAroundAppend ==
    \A i \in TaskIds : mutex = i => tasks[i].pc \in {"record", "writeerr", "release", "return"}

WritesHoldMutex ==
    ((Errors' # Errors \/ Results' # Results \/ Stats' # Stats) /\ TasksRunning)
        => (mutex # 0 /\ tasks'[mutex].pc # tasks[mutex].pc)

\* C4: while tasks of the run are executing, every step that changes Results,
\* Errors or Stats is a step of the task that holds the mutex, and the mutex is
\* never held by a task whose Analyze call is still executing.
C4_WritesUnderMutex == [](MutexOnlyAroundAppend) /\ [][WritesHoldMutex]_vars

\* C5 as stated: the step that records a failed task merges its results
C5_ErrorAndResultsMerged ==
    [][\A i \in TaskIds :
          (i <= Len(tasks') /\ tasks[i].pc = "record" /\ tasks'[i].pc = "writeerr")
              => Results' = Results \o tasks[i].results]_vars

ResultsAreOfSucceeded ==
    SameBag(Results, ResultsOf({i \in TaskIds : Recorded(i) /\ ~Failed(i)}))

ErrorAppendedOnFailure ==
    \A i \in TaskIds :
        (tasks[i].pc = "writeerr" /\ tasks'[i].pc = "release")
            => /\ Errors' # <<>>
               /\ Errors'[Len(Errors')] = [kind |-> "task", name |-> tasks[i].name, err |-> tasks[i].err]

\* C5, amended: a task that returns an error has its error appended to Errors
\* under its name and none of its returned results merged: Results holds only
\* the results of the tasks that returned no error.
C5_ErrorExcludesResults == [](ResultsAreOfSucceeded) /\ [][ErrorAppendedOnFailure]_vars

\* C5: a task that returned results together with an error has recorded its outcome
C5_Witness ==
    /\ mpc = "done"
    /\ \E i \in TaskIds : Failed(i) /\ tasks[i].results # <<>> /\ tasks[i].pc = "done"

\* C8: with explicit filters given, the tasks scheduled are those of the
\* explicit filters found in the registry, in list order, whatever the active
\* filters are.
C8_ExplicitFiltersOnly ==
    (Len(Filters) # 0 /\ mpc # "start") =>
        /\ order = Filters
        /\ TaskNames = SelectSeq(SubSeq(Filters, 1, fi - 1), InRegistry)
        /\ mpc \in {"wait", "done"} => TaskNames = SelectSeq(Filters, InRegistry)

\* C8: a finished run with explicit filters and an active filter naming another analyzer
C8_Witness ==
    /\ mpc = "done"
    /\ Len(Filters) # 0
    /\ Len(tasks) > 0
    /\ \E n \in Range(activeFilters) : n \in AnalyzerMap /\ n \notin Range(Filters)

\* C9: when a run with explicit filters has returned, each filter missing from
\* the registry has one Errors entry per occurrence and no task, and every
\* valid filter has a task that recorded its outcome.
C9_UnknownFilterReported ==
    (mpc = "done" /\ Len(Filters) # 0) =>
        /\ \A n \in Range(Filters) \ AnalyzerMap :
              /\ Count(Errors, LAMBDA e : e.kind = "filter" /\ e.name = n)
                    = Count(Filters, LAMBDA f : f = n)
              /\ \A i \in TaskIds : tasks[i].name # n
        /\ TaskNames = SelectSeq(Filters, InRegistry)
        /\ SameBag(Results, ResultsOf({i \in TaskIds : ~Failed(i)}))
        /\ \A i \in TaskIds : OneErrorPerFailedTask(tasks[i].name)

(* -------------------------------------------- RunCustomAnalysis: properties *)

\* the task has made its one append
Appended(i) == tasks[i].pc \in {"unlock", "release", "done"}
RunFailed(i) == tasks[i].err \in AnalyzeErrors
RunSucceeded(i) == tasks[i].err = NoError

\* C15: every plugin whose connection was constructed contributes one
\* outcome: a Run error adds one "[<plugin name>] <error>" entry and no
\* result, a Run without error adds its one result and no entry, and a stored
\* result never has an empty Kind: the plugin's name stands in for it.
C15_OneOutcomePerPlugin ==
    /\ SameBag(Results, ResultsOf({i \in TaskIds : Appended(i) /\ RunSucceeded(i)}))
    /\ \A n \in PluginNames :
          Count(Errors, LAMBDA e : e.kind = "task" /\ e.name = n)
              = Cardinality({i \in TaskIds : Appended(i) /\ RunFailed(i) /\ tasks[i].name = n})
    /\ \A e \in Range(Errors) :
          e.kind = "task" => e.name \in PluginNames /\ e.err \in AnalyzeErrors
    /\ \A i \in TaskIds :
          Appended(i) /\ RunSucceeded(i)
              => /\ Len(tasks[i].results) = 1
                 /\ tasks[i].results[1].Kind \in {"Custom", tasks[i].name}
    /\ \A k \in 1..Len(Results) : Results[k].Kind # ""

\* C15: a finished run in which one plugin failed in Run with a result in
\* hand and another succeeded with an empty Kind
C15_Witness ==
    /\ mpc = "done"
    /\ \E i \in TaskIds : RunFailed(i) /\ tasks[i].results # <<>> /\ tasks[i].pc = "done"
    /\ \E i \in TaskIds :
          RunSucceeded(i) /\ tasks[i].pc = "done" /\ tasks[i].results # <<>>
              /\ tasks[i].results[1].Kind = tasks[i].name
    /\ Len(Results) = 1 /\ Len(Errors) = 1

\* plugin tasks launched (or being launched) that have not finished
CustomInFlight ==
    Cardinality({i \in TaskIds : tasks[i].pc # "done"}) + (IF mpc = "launch" THEN 1 ELSE 0)

NoConnectFailure == \A i \in TaskIds : tasks[i].err # ConnectError

\* C16: for every MaxConcurrency, 0 and negative values included, and with
\* every connection constructed, RunCustomAnalysis goes on until it has
\* returned, it returns with every configured plugin run to completion, and
\* the plugin tasks in flight never exceed the clamped limit.
C16_CustomGateClamped ==
    NoConnectFailure =>
        /\ mpc = "done" \/ ENABLED NextCustom
        /\ (mpc = "done" /\ ConfigError \notin Range(Errors))
              => /\ Len(tasks) = Len(customAnalyzers)
                 /\ \A i \in TaskIds : tasks[i].pc = "done"
        /\ CustomInFlight <= EffectiveConcurrency(MaxConcurrency)

\* the task has not yet received from the semaphore
HoldsSlot(i) == tasks[i].pc \notin {"return", "done"}

\* slots owed by the launched tasks and by the launch under way
SlotsOwed ==
    Cardinality({i \in TaskIds : HoldsSlot(i)}) + (IF mpc = "launch" THEN 1 ELSE 0)

\* the submitting loop waits for a slot while no task is left to free one
SubmitterBlocked ==
    /\ mpc = "loop"
    /\ fi <= Len(order)
    /\ semaphore >= concurrency
    /\ \A i \in TaskIds : ~HoldsSlot(i)

\* C17: under a positive limit, the slots held are those of the tasks that
\* have not yet made their release, which follows the append of the outcome:
\* a finished task has released its slot exactly once on whatever path it
\* took, no slot is held when the run has returned, and the submitter is never
\* left waiting for a slot that no task will free.
C17_SlotReleasedOnEveryPath ==
    MaxConcurrency > 0 =>
        /\ semaphore = SlotsOwed
        /\ mpc = "done" => semaphore = 0
        /\ ~SubmitterBlocked

====
